---------------------------- MODULE Spec2Model ----------------------------
(***************************************************************************)
(* A model of the dimuon analysis workflow of 03-hep.ipynb: the chunk      *)
(* planner `chunks`, the per-chunk transforms (nmuons_plot, filter_muons,  *)
(* dimuon_cand, mass_plot, cand_table), the delayed task graph built by    *)
(* `results` / `results_opt`, the histogram reduction (to_list groups      *)
(* folded with `add`) and the execution of the graph by dask.compute.      *)
(***************************************************************************)
EXTENDS Integers, Sequences, FiniteSets, TLC

(***************************************************************************)
(* Bounds of the model.                                                    *)
(***************************************************************************)
\* largest record count handed to chunks() by the planner specification
MaxN == 13
\* largest target_size handed to chunks() by the planner specification
MaxT == 5
\* most muons in one event of an enumerated record batch
MaxMuons == 3
\* most events in an enumerated record batch
MaxRows == 2
\* most partial histograms handed to the reduction specification
MaxPartials == 3
\* largest bin count of an enumerated partial histogram
MaxCount == 1
\* most events in the input file of the workflow specification
MaxEvents == 3

(***************************************************************************)
(* Small helpers.                                                          *)
(***************************************************************************)
Range(s) == {s[i] : i \in DOMAIN s}

RECURSIVE SumSeq(_)
SumSeq(s) == IF s = <<>> THEN 0 ELSE Head(s) + SumSeq(Tail(s))

(***************************************************************************)
(* The chunk planner (cell 13).                                            *)
(*                                                                         *)
(* np.linspace(start, stop, num, dtype=int) returns num samples: none for  *)
(* num = 0, the single sample `start` for num = 1, and otherwise           *)
(* start + i * (stop - start) / (num - 1) for i = 0 .. num - 1, the last   *)
(* one set to stop, each floored to an integer.  numpy computes the        *)
(* samples in double precision; for the record counts of this model        *)
(* (below 118) the floored doubles equal the exact integer quotients used  *)
(* here.                                                                   *)
(***************************************************************************)
linspace(start, stop, num) ==
    IF num <= 0 THEN << >>
    ELSE IF num = 1 THEN << start >>
    ELSE [i \in 1..num |-> start + (((i - 1) * (stop - start)) \div (num - 1))]

\* a planner that cuts every source of at least target_size records into one
\* range (two edges) whatever its record count
chunks_one_range(n, target_size) ==
    LET edges == linspace(0, n, IF n \div target_size >= 1 THEN 2 ELSE 0)
    IN  [i \in 1..(Len(edges) - 1) |-> << edges[i], edges[i + 1] >>]

\* def chunks(n, target_size): edges = np.linspace(0, n, n // target_size, dtype=int)
\*                             return zip(edges[:-1], edges[1:])
chunks(n, target_size) ==
    LET edges == linspace(0, n, n \div target_size)
    IN  [i \in 1..(Len(edges) - 1) |-> << edges[i], edges[i + 1] >>]


(***************************************************************************)
(* Record batches (cell 9, muon_struct).  A batch is a sequence of events; *)
(* an event is a record [entry, muons]: entry is the event's position in   *)
(* the batch it was loaded in (carried along to name the row; awkward      *)
(* arrays identify a row by position only) and muons is the event's list   *)
(* of muons.  A muon is a record [p4, charge]: p4 stands for the Lorentz   *)
(* vector (pt, eta, phi, mass), abstracted to one additive integer         *)
(* component, and charge is +1 or -1.                                      *)
(***************************************************************************)
Charges == { 1, -1 }

RECURSIVE Pow2(_)
Pow2(k) == IF k = 0 THEN 1 ELSE 2 * Pow2(k - 1)

\* the event at position `entry` whose muons have the charges cs; the j-th
\* muon of an event has p4 = 2^(j-1), so the muons of an event are distinct
\* and a sum of p4 names the muons summed
Event(entry, cs) ==
    [entry |-> entry,
     muons |-> [j \in DOMAIN cs |-> [p4 |-> Pow2(j - 1), charge |-> cs[j]]]]

\* the batch whose events have the charge lists css, in this order
Batch(css) == [i \in DOMAIN css |-> Event(i - 1, css[i])]

\* a missing value (None) in a column of muons
None == [p4 |-> 0, charge |-> 0]

\* ak.num(muons_chunk): the number of muons of each event
num(ev) == Len(ev.muons)

\* ak.sum(muons_chunk.charge, axis=1): the charge sum of each event
charge_sum(ev) == SumSeq([j \in DOMAIN ev.muons |-> ev.muons[j].charge])

\* a filter whose mask joins the two predicates with | instead of &
filter_muons_or(muons_chunk) ==
    SelectSeq(muons_chunk, LAMBDA ev : (num(ev) = 2) \/ (charge_sum(ev) = 0))

\* def filter_muons(muons_chunk):
\*     return muons_chunk[(ak.num(muons_chunk)==2) & (ak.sum(muons_chunk.charge, axis=1) == 0)]
filter_muons(muons_chunk) ==
    SelectSeq(muons_chunk, LAMBDA ev : (num(ev) = 2) /\ (charge_sum(ev) = 0))

\* def dimuon_cand(muons_chunk): return muons_chunk.sum()
\* the vector sum over the muons of each event (zero for an event without muons)
dimuon_cand(muons_chunk) ==
    [i \in DOMAIN muons_chunk |->
        [p4 |-> SumSeq([j \in DOMAIN muons_chunk[i].muons |-> muons_chunk[i].muons[j].p4])]]

\* ak.firsts: the first element of a list, None for an empty list
firsts(ms) == IF ms = << >> THEN None ELSE Head(ms)

\* a table whose mu- columns select charge == 1 like its mu+ columns
cand_table_same_sign(muons_chunk, cand_chunk) ==
    [i \in DOMAIN cand_chunk |->
        [mass  |-> cand_chunk[i].p4,
         mupos |-> firsts(SelectSeq(muons_chunk[i].muons, LAMBDA m : m.charge = 1)),
         muneg |-> firsts(SelectSeq(muons_chunk[i].muons, LAMBDA m : m.charge = 1))]]

\* def cand_table(muons_chunk, cand_chunk):
\*     mupos = ak.firsts(muons_chunk[muons_chunk.charge == 1])
\*     muneg = ak.firsts(muons_chunk[muons_chunk.charge == -1])
\*     return pd.DataFrame({"mass": cand_chunk.mass, ..., "mu+_pt": mupos.pt, ..., "mu-_pt": muneg.pt, ...})
\* one table row per event: the candidate's columns and those of mu+ and mu-
cand_table(muons_chunk, cand_chunk) ==
    [i \in DOMAIN cand_chunk |->
        [mass  |-> cand_chunk[i].p4,
         mupos |-> firsts(SelectSeq(muons_chunk[i].muons, LAMBDA m : m.charge = 1)),
         muneg |-> firsts(SelectSeq(muons_chunk[i].muons, LAMBDA m : m.charge = -1))]]


(***************************************************************************)
(* Histograms (cell 19) and their reduction (cell 27).  A histogram is the *)
(* sequence of its bin counts, the underflow bin first and the overflow    *)
(* bin last; hist's + (operator.add) adds two histograms of the same axis  *)
(* bin by bin.                                                             *)
(***************************************************************************)
\* a combine that keeps the larger count of each bin
add_max(a, b) == [i \in DOMAIN a |-> IF a[i] >= b[i] THEN a[i] ELSE b[i]]

\* from operator import add: hist.Hist.__add__, the bin-wise sum
add(a, b) == [i \in DOMAIN a |-> a[i] + b[i]]

\* functools / toolz reduce(add, xs) without initial value: a left fold of a
\* non-empty sequence
RECURSIVE reduce_add(_)
reduce_add(xs) ==
    IF Len(xs) = 1 THEN xs[1]
    ELSE add(reduce_add(SubSeq(xs, 1, Len(xs) - 1)), xs[Len(xs)])

\* Bag.fold(add) on a bag whose partitions are the lists `parts`: reduce(add)
\* inside every partition, then reduce(add) over the partitions' results
fold(parts) == reduce_add([j \in DOMAIN parts |-> reduce_add(parts[j])])

\* hist.fill on an axis of nbins bins: bin 1 holds the underflow, bins
\* 2 .. nbins + 1 the axis, bin nbins + 2 the overflow; idx is the filled
\* value's bin
fill(nbins, idx) ==
    [b \in 1..(nbins + 2) |-> Cardinality({k \in DOMAIN idx : idx[k] = b})]

\* hist.Hist.new.Reg(6, 0, 6, name="nMuons").Double().fill(ak.num(muons_chunk))
nmuons_plot(muons_chunk) ==
    fill(6, [k \in DOMAIN muons_chunk |->
                LET c == num(muons_chunk[k])
                IN  IF c >= 6 THEN 8 ELSE c + 2])

\* hist.Hist.new.Log(1000, 0.2, 200, name="mass").Double().fill(cand_chunk.mass)
\* the logarithmic axis is modelled by its three decades [0.2, 2), [2, 20)
\* and [20, 200) (one bin each, instead of 1000 bins); masses are integers
mass_plot(cand_chunk) ==
    fill(3, [k \in DOMAIN cand_chunk |->
                LET m == cand_chunk[k].p4
                IN  IF m < 1 THEN 1
                    ELSE IF m < 2 THEN 2
                    ELSE IF m < 20 THEN 3
                    ELSE IF m < 200 THEN 4
                    ELSE 5])


(***************************************************************************)
(* The delayed task graph (cells 5, 13, 25, 27).  Calling a function       *)
(* wrapped by @delayed(pure=True) runs nothing: it returns a task, a       *)
(* record [fn, lit, args, uid] of the function's name, its literal         *)
(* arguments, its task arguments and a token of the call.  The record is   *)
(* the task's key; two calls that return the same record are one task of   *)
(* the graph.                                                              *)
(***************************************************************************)
\* a call token that differs from call site to call site (pure=False: a
\* fresh uuid per call)
call_token_impure(site) == site

\* the call-specific part of a task's key: @delayed(pure=True) derives the
\* key from the function and its arguments alone
call_token(site) == 0

Delayed(fn, lit, args, site) ==
    [fn |-> fn, lit |-> lit, args |-> args, uid |-> call_token(site)]

\* inputs = [get_tree(url) for url in urls], for the one input file of the model
inputs == << Delayed("get_tree", << 1 >>, << >>, 20) >>

\* muons = [muon_struct(tree, start, stop) for tree, nev in zip(inputs, nevents)
\*          for start, stop in chunks(nev, chunksize)]
muons_list(n, target_size) ==
    LET cs == chunks(n, target_size)
    IN  [i \in DOMAIN cs |-> Delayed("muon_struct", cs[i], << inputs[1] >>, 21)]

\* def results(muons_chunk): every use of a shared component is a call of its own
results(muons_chunk) ==
    << Delayed("nmuons_plot", << >>, << muons_chunk >>, 1),
       Delayed("mass_plot", << >>,
               << Delayed("dimuon_cand", << >>,
                          << Delayed("filter_muons", << >>, << muons_chunk >>, 4) >>, 3) >>, 2),
       Delayed("cand_table", << >>,
               << Delayed("filter_muons", << >>, << muons_chunk >>, 6),
                  Delayed("dimuon_cand", << >>,
                          << Delayed("filter_muons", << >>, << muons_chunk >>, 8) >>, 7) >>, 5) >>

\* def results_opt(muons_chunk): filtered and cand are built once and re-used
results_opt(muons_chunk) ==
    LET filtered_d == Delayed("filter_muons", << >>, << muons_chunk >>, 9)
        cand_d == Delayed("dimuon_cand", << >>, << filtered_d >>, 10)
    IN  << Delayed("nmuons_plot", << >>, << muons_chunk >>, 11),
           Delayed("mass_plot", << >>, << cand_d >>, 12),
           Delayed("cand_table", << >>, << filtered_d, cand_d >>, 13) >>

\* result_set = np.array([results(chunk) for chunk in muons[:10]])
result_set(ms) ==
    [i \in 1..(IF Len(ms) < 10 THEN Len(ms) ELSE 10) |-> results(ms[i])]

\* groups that leave out the last result of every range
fold_groups_short(col, group) ==
    LET rs == chunks(Len(col), group)
    IN  [j \in DOMAIN rs |->
            Delayed("to_list", << >>, SubSeq(col, rs[j][1] + 1, rs[j][2] - 1), 14)]

\* to_list(*result_set[start:stop, k]) for start, stop in chunks(len(result_set), 4):
\* one to_list task per range, over column `col` of result_set
fold_groups(col, group) ==
    LET rs == chunks(Len(col), group)
    IN  [j \in DOMAIN rs |->
            Delayed("to_list", << >>, SubSeq(col, rs[j][1] + 1, rs[j][2]), 14)]

\* (nmuons_final, mass_final, table_skim) of cell 27, for the result set rset
\* and the group size `group`; the bag's fold and the dataframe's filter,
\* repartition and to_parquet are one task each
outputs(rset, group) ==
    << Delayed("fold", << >>, fold_groups([i \in DOMAIN rset |-> rset[i][1]], group), 15),
       Delayed("fold", << >>, fold_groups([i \in DOMAIN rset |-> rset[i][2]], group), 16),
       Delayed("to_parquet", << >>, [i \in DOMAIN rset |-> rset[i][3]], 17) >>

\* the tasks of the graph of task t: t and the tasks of its arguments
RECURSIVE Nodes(_)
Nodes(t) == { t } \cup UNION { Nodes(t.args[i]) : i \in DOMAIN t.args }

(***************************************************************************)
(* What the tasks compute.                                                 *)
(***************************************************************************)
\* the events of the input file, repeated in this order: an opposite-sign
\* pair of mass 95, a single muon, an opposite-sign pair of mass 35, a
\* same-sign pair, an event without muons
DataEvents ==
    << << [p4 |-> 45, charge |-> 1], [p4 |-> 50, charge |-> -1] >>,
       << [p4 |-> 10, charge |-> 1] >>,
       << [p4 |-> 20, charge |-> -1], [p4 |-> 15, charge |-> 1] >>,
       << [p4 |-> 45, charge |-> 1], [p4 |-> 50, charge |-> 1] >>,
       << >> >>

\* uproot.open(url)["Events"]: the tree of the file, n events long
get_tree(n) ==
    [e \in 1..n |-> [entry |-> e - 1, muons |-> DataEvents[((e - 1) % Len(DataEvents)) + 1]]]

\* def muon_struct(tree, entry_start, entry_stop): the events
\* entry_start <= e < entry_stop of the tree
muon_struct(tree, entry_start, entry_stop) ==
    [k \in 1..(entry_stop - entry_start) |->
        [entry |-> k - 1, muons |-> tree[entry_start + k].muons]]

RECURSIVE Concat(_)
Concat(ss) == IF ss = << >> THEN << >> ELSE Head(ss) \o Concat(Tail(ss))

\* table_full[abs(table_full.mass - 90.0) < 30.0].repartition(2).to_parquet("zmmtable"):
\* the rows written, in the order of the chunks (how the rows are spread
\* over the two partitions is not modelled)
to_parquet(tables) ==
    SelectSeq(Concat(tables),
              LAMBDA r : (IF r.mass >= 90 THEN r.mass - 90 ELSE 90 - r.mass) < 30)

\* the function of task t applied to the argument values a
Apply(t, a, n) ==
    CASE t.fn = "get_tree"     -> get_tree(n)
      [] t.fn = "muon_struct"  -> muon_struct(a[1], t.lit[1], t.lit[2])
      [] t.fn = "nmuons_plot"  -> nmuons_plot(a[1])
      [] t.fn = "filter_muons" -> filter_muons(a[1])
      [] t.fn = "dimuon_cand"  -> dimuon_cand(a[1])
      [] t.fn = "mass_plot"    -> mass_plot(a[1])
      [] t.fn = "cand_table"   -> cand_table(a[1], a[2])
      [] t.fn = "to_list"      -> a
      [] t.fn = "fold"         -> fold(a)
      [] t.fn = "to_parquet"   -> to_parquet(a)

VARIABLES
    \* ---- planner specification ----
    nev,          \* n: the record count of the source handed to chunks()
    chunksize,    \* target_size handed to chunks()
    plan,         \* the ranges returned by chunks(nev, chunksize), once planned
    ppc,          \* "start", "planned" once chunks() ran, "loaded" once the tasks ran
    loads,        \* loads[e]: how many muon_struct tasks have loaded event e
    \* ---- transform specification ----
    batch,        \* the record batch (muons_chunk) handed to the transforms
    filtered,     \* filter_muons(batch), once computed
    cand,         \* dimuon_cand(filtered), once computed
    table,        \* cand_table(filtered, cand), once computed
    bpc,          \* "start", "filtered", "summed", "tabled"
    \* ---- reduction specification ----
    partials,     \* the partial histograms to reduce, in bag order
    pool,         \* the histograms not yet combined away
    \* ---- workflow specification (with nev and chunksize) ----
    group,        \* the group size handed to chunks() to build the to_list groups
    graph,        \* graph[i]: the function and literal arguments of task i
    deps,         \* deps[i]: the numbers of the tasks that task i takes as arguments
    faulty,       \* the number of the task whose function raises, 0 when none does
    outs,         \* the numbers of (nmuons_final, mass_final, table_skim)
    status,       \* status[i] of task i: "waiting", "done", "erred"
    value,        \* value[i]: the result of task i once done
    runs,         \* runs[i]: how many times the function of task i was called
    outcome,      \* "built" before dask.compute is called, then "computing", "returned", "raised"
    res           \* the tuple dask.compute returned

planVars == << nev, chunksize, plan, ppc, loads >>
batchVars == << batch, filtered, cand, table, bpc >>
foldVars == << partials, pool >>
execVars == << group, graph, deps, faulty, outs, status, value, runs, outcome, res >>
vars == << planVars, batchVars, foldVars, execVars >>

\* the variables of a specification that another specification leaves alone
PlanIdle == nev = 0 /\ chunksize = 1 /\ plan = << >> /\ ppc = "idle" /\ loads = << >>
ExecIdle ==
    /\ group = 0 /\ graph = << >> /\ deps = << >> /\ faulty = 0 /\ outs = << >> /\ status = << >>
    /\ value = << >> /\ runs = << >> /\ outcome = "idle" /\ res = << >>
FoldIdle == partials = << >> /\ pool = << >>
BatchIdle == batch = << >> /\ filtered = << >> /\ cand = << >> /\ table = << >> /\ bpc = "idle"

(***************************************************************************)
(* Planner specification: one source with nev records is cut by            *)
(* chunks(nev, chunksize) and one muon_struct task per range loads the     *)
(* events entry_start <= e < entry_stop of the range.                      *)
(***************************************************************************)
\* the inputs: every small (n, target_size), and the 1000 / 400 scenario
PlanInputs == ((0..MaxN) \X (1..MaxT)) \cup { << 1000, 400 >> }

PlanInit ==
    /\ \E in \in PlanInputs : nev = in[1] /\ chunksize = in[2]
    /\ plan = << >>
    /\ ppc = "start"
    /\ loads = [e \in 0..(nev - 1) |-> 0]
    /\ BatchIdle
    /\ FoldIdle
    /\ ExecIdle

\* for start, stop in chunks(nev, chunksize)
PlanChunks ==
    /\ ppc = "start"
    /\ plan' = chunks(nev, chunksize)
    /\ ppc' = "planned"
    /\ UNCHANGED << nev, chunksize, loads, batchVars, foldVars, execVars >>

\* muon_struct(tree, start, stop) for every planned range: the tasks read
\* tree[name].array(entry_start=start, entry_stop=stop)
LoadChunks ==
    /\ ppc = "planned"
    /\ loads' = [e \in 0..(nev - 1) |->
                    Cardinality({i \in DOMAIN plan : plan[i][1] <= e /\ e < plan[i][2]})]
    /\ ppc' = "loaded"
    /\ UNCHANGED << nev, chunksize, plan, batchVars, foldVars, execVars >>

PlanNext == PlanChunks \/ LoadChunks

PlanSpec == PlanInit /\ [][PlanNext]_vars

(***************************************************************************)
(* Transform specification: one record batch goes through filter_muons,    *)
(* dimuon_cand and cand_table, as in                                       *)
(* cand_table(filter_muons(c), dimuon_cand(filter_muons(c))).              *)
(***************************************************************************)
\* the charge lists of the events: at most MaxMuons muons, each +1 or -1
ChargeLists == UNION { [1..k -> Charges] : k \in 0..MaxMuons }

\* the batch of the filter scenario: per-event muon counts 1, 2, 0, 2, 3,
\* the two-muon events of opposite sign
ScenarioBatch == Batch(<< << 1 >>, << 1, -1 >>, << >>, << -1, 1 >>, << 1, 1, -1 >> >>)

\* the input batches: every batch of at most MaxRows events, and the scenario
Batches ==
    { Batch(css) : css \in UNION { [1..k -> ChargeLists] : k \in 0..MaxRows } }
        \cup { ScenarioBatch }

BatchInit ==
    /\ batch \in Batches
    /\ filtered = << >>
    /\ cand = << >>
    /\ table = << >>
    /\ bpc = "start"
    /\ PlanIdle
    /\ FoldIdle
    /\ ExecIdle

FilterMuons ==
    /\ bpc = "start"
    /\ filtered' = filter_muons(batch)
    /\ bpc' = "filtered"
    /\ UNCHANGED << batch, cand, table, planVars, foldVars, execVars >>

DimuonCand ==
    /\ bpc = "filtered"
    /\ cand' = dimuon_cand(filtered)
    /\ bpc' = "summed"
    /\ UNCHANGED << batch, filtered, table, planVars, foldVars, execVars >>

CandTable ==
    /\ bpc = "summed"
    /\ table' = cand_table(filtered, cand)
    /\ bpc' = "tabled"
    /\ UNCHANGED << batch, filtered, cand, planVars, foldVars, execVars >>

BatchNext == FilterMuons \/ DimuonCand \/ CandTable

BatchSpec == BatchInit /\ [][BatchNext]_vars

\* the mask of the filter, stated on an event: two muons of total charge 0
Selected(ev) ==
    /\ Len(ev.muons) = 2
    /\ ev.muons[1].charge + ev.muons[2].charge = 0

\* C7: filter_muons returns exactly the events of its input whose mask is
\* true (two muons, charge sum 0), each once, unchanged and in the input's
\* relative order, and no event whose mask is false; on the scenario batch
\* (muon counts 1, 2, 0, 2, 3) it returns the events at positions 1 and 3.
C7_FilterSelectsMaskedRowsInOrder ==
    (bpc \in { "filtered", "summed", "tabled" }) =>
        /\ \A j \in DOMAIN filtered :
              /\ filtered[j].entry + 1 \in DOMAIN batch
              /\ filtered[j] = batch[filtered[j].entry + 1]
              /\ Selected(filtered[j])
        /\ \A j \in 1..(Len(filtered) - 1) : filtered[j].entry < filtered[j + 1].entry
        /\ \A i \in DOMAIN batch :
              Selected(batch[i]) => \E j \in DOMAIN filtered : filtered[j].entry = i - 1
        /\ (batch = ScenarioBatch) =>
              ([j \in DOMAIN filtered |-> filtered[j].entry] = << 1, 3 >>)

\* C7 witness: the filter has run on the scenario batch and kept two of its
\* five events.
C7_Witness ==
    /\ bpc = "filtered"
    /\ batch = ScenarioBatch
    /\ Len(filtered) = 2

\* C10: with every charge +1 or -1, every event that survives filter_muons
\* has exactly one muon of charge +1 and exactly one of charge -1; in
\* cand_table(filter_muons(c), dimuon_cand(filter_muons(c))) mupos and muneg
\* are never missing, are distinct muons and are exactly the two muons
\* summed into the row's candidate, and the table has one row per surviving
\* event.
C10_TableHasBothMuons ==
    (bpc = "tabled") =>
        /\ Len(table) = Len(filtered)
        /\ Len(table) = Cardinality({i \in DOMAIN batch : Selected(batch[i])})
        /\ \A i \in DOMAIN table :
              LET ms == filtered[i].muons
              IN  /\ Cardinality({j \in DOMAIN ms : ms[j].charge = 1}) = 1
                  /\ Cardinality({j \in DOMAIN ms : ms[j].charge = -1}) = 1
                  /\ table[i].mupos # None
                  /\ table[i].muneg # None
                  /\ table[i].mupos # table[i].muneg
                  /\ { table[i].mupos, table[i].muneg } = Range(ms)
                  /\ table[i].mupos.charge = 1
                  /\ table[i].muneg.charge = -1
                  /\ table[i].mass = table[i].mupos.p4 + table[i].muneg.p4

\* C10 witness: a table of two rows has been built, one whose mu+ is the
\* first muon of its event and one whose mu+ is the second.
C10_Witness ==
    /\ bpc = "tabled"
    /\ Len(table) = 2
    /\ table[1].mupos.p4 = 1
    /\ table[2].mupos.p4 = 2

(***************************************************************************)
(* Reduction specification: the partial histograms are combined two at a   *)
(* time with add, any two of them in either operand order, until one is    *)
(* left: every grouping, tree shape and order of the reduction.            *)
(***************************************************************************)
\* the partial histograms: two bins with counts up to MaxCount
FoldHists == [1..2 -> 0..MaxCount]

\* the inputs: every sequence of 1 .. MaxPartials partial histograms, and
\* the scenario of bin counts [1,0,2] and [0,1,1]
FoldInputs ==
    UNION { [1..k -> FoldHists] : k \in 1..MaxPartials }
        \cup { << << 1, 0, 2 >>, << 0, 1, 1 >> >> }

FoldInit ==
    /\ partials \in FoldInputs
    /\ pool = partials
    /\ PlanIdle
    /\ BatchIdle
    /\ ExecIdle

\* combine the i-th and the j-th histogram of the pool into add(pool[i], pool[j])
Combine(i, j) ==
    /\ i \in DOMAIN pool
    /\ j \in DOMAIN pool
    /\ i # j
    /\ LET merged == [pool EXCEPT ![i] = add(pool[i], pool[j])]
       IN  pool' = [k \in 1..(Len(pool) - 1) |-> IF k < j THEN merged[k] ELSE merged[k + 1]]
    /\ UNCHANGED << partials, planVars, batchVars, execVars >>

FoldNext == \E i \in DOMAIN pool, j \in DOMAIN pool : Combine(i, j)

FoldSpec == FoldInit /\ [][FoldNext]_vars

\* the total of bin b over the histograms hs
BinTotal(hs, b) == SumSeq([k \in DOMAIN hs |-> hs[k][b]])

\* C5: reducing the partial histograms with add gives the same final
\* histogram for every grouping, tree shape and order of combination: the
\* bin totals of the pool never change, so the last histogram left holds
\* every bin's total over the partials and equals the bag's own fold; the
\* zero histogram is an identity of add; [1,0,2] and [0,1,1] combine to
\* [1,1,3] in either order.
C5_ReductionShapeIndependent ==
    /\ \A b \in DOMAIN partials[1] : BinTotal(pool, b) = BinTotal(partials, b)
    /\ (Len(pool) = 1) =>
          /\ pool[1] = reduce_add(partials)
          /\ pool[1] = fold(<< partials >>)
          /\ \A k \in 1..(Len(partials) - 1) :
                pool[1] = fold(<< SubSeq(partials, 1, k), SubSeq(partials, k + 1, Len(partials)) >>)
    /\ \A k \in DOMAIN pool :
          /\ add([b \in DOMAIN pool[k] |-> 0], pool[k]) = pool[k]
          /\ add(pool[k], [b \in DOMAIN pool[k] |-> 0]) = pool[k]
    /\ (partials = << << 1, 0, 2 >>, << 0, 1, 1 >> >> /\ Len(pool) = 1) =>
          (pool[1] = << 1, 1, 3 >>)

\* C5 witness: three partial histograms, not all equal, have been reduced
\* to one.
C5_Witness ==
    /\ Len(partials) = 3
    /\ partials[1] # partials[2]
    /\ partials[2] # partials[3]
    /\ Len(pool) = 1

(***************************************************************************)
(* Workflow specification: the graph of (nmuons_final, mass_final,         *)
(* table_skim) is built for one input file of nev events and handed to     *)
(* dask.compute (cell 30), which runs every task once all the tasks it     *)
(* takes as arguments are done, in any order.  A task whose function       *)
(* raises ends erred, and so does every task with an erred argument;       *)
(* compute raises when one of the three tasks asked for is erred and       *)
(* returns their values when all three are done.  The sizes the notebook   *)
(* fixes (chunksize 400_000, groups of 4) are drawn from small sets.       *)
(* The tasks of the graph, one per distinct key, are numbered: graph[i]    *)
(* holds the function and the literal arguments of task i and deps[i] the  *)
(* numbers of the tasks it takes as arguments.                             *)
(***************************************************************************)
\* the group size of the notebook: chunks(len(result_set), 4)
FoldGroup == 4

\* the load and the transforms of a chunk
ChunkFns ==
    { "muon_struct", "nmuons_plot", "filter_muons", "dimuon_cand", "mass_plot", "cand_table" }

RECURSIVE SetToSeq(_)
SetToSeq(S) ==
    IF S = {} THEN << >>
    ELSE LET x == CHOOSE y \in S : TRUE IN << x >> \o SetToSeq(S \ { x })

\* the graph of the tasks os: one entry per distinct key
GraphOf(os) == SetToSeq(UNION { Nodes(os[k]) : k \in DOMAIN os })

\* the number of the task of key t in the graph gr
KeyIndex(gr, t) == CHOOSE i \in DOMAIN gr : gr[i] = t

Tasks == DOMAIN graph

\* the function of task i raises: i is the faulty task, or i folds a bag
\* without partitions (reduce() of an empty sequence with no initial value)
Raises(i) == i = faulty \/ (graph[i].fn = "fold" /\ deps[i] = << >>)

\* data-dependency ordering: every argument of task i is done
Ready(i) ==
    /\ status[i] = "waiting"
    /\ \A k \in DOMAIN deps[i] : status[deps[i][k]] = "done"

\* nmuons_plot fills a histogram it shares with an nmuons_plot task that ran
\* before, instead of one it creates
Exec_shared_hist(i) ==
    LET a == [k \in DOMAIN deps[i] |-> value[deps[i][k]]]
        prev == {u \in Tasks : graph[u].fn = "nmuons_plot" /\ status[u] = "done"}
    IN  IF graph[i].fn = "nmuons_plot" /\ prev # {}
        THEN add(value[CHOOSE u \in prev : TRUE], Apply(graph[i], a, nev))
        ELSE Apply(graph[i], a, nev)

\* the call of the function of task i on the values of its arguments
Exec(i) == Apply(graph[i], [k \in DOMAIN deps[i] |-> value[deps[i][k]]], nev)

Init ==
    /\ \E n \in 1..MaxEvents, cs \in 1..MaxEvents :
          /\ Len(chunks(n, cs)) >= 1
          /\ nev = n
          /\ chunksize = cs
    /\ group \in 1..FoldGroup
    /\ LET os == outputs(result_set(muons_list(nev, chunksize)), group)
           gr == GraphOf(os)
       IN  /\ graph = [i \in DOMAIN gr |-> [fn |-> gr[i].fn, lit |-> gr[i].lit]]
           /\ deps = [i \in DOMAIN gr |->
                        [k \in DOMAIN gr[i].args |-> KeyIndex(gr, gr[i].args[k])]]
           /\ outs = [k \in DOMAIN os |-> KeyIndex(gr, os[k])]
    /\ faulty \in { 0 } \cup { i \in DOMAIN graph : graph[i].fn \in ChunkFns }
    /\ status = [i \in DOMAIN graph |-> "waiting"]
    /\ value = [i \in DOMAIN graph |-> << >>]
    /\ runs = [i \in DOMAIN graph |-> 0]
    /\ outcome = "built"
    /\ res = << >>
    /\ plan = << >> /\ ppc = "idle" /\ loads = << >>
    /\ BatchIdle
    /\ FoldIdle

\* dask.compute((nmuons_final, mass_final, table_skim)) is called
Compute ==
    /\ outcome = "built"
    /\ outcome' = "computing"
    /\ UNCHANGED << group, faulty, graph, deps, outs, status, value, runs, res, planVars, batchVars, foldVars >>

\* a worker runs task i and its function returns
Run(i) ==
    /\ outcome # "built"
    /\ Ready(i)
    /\ ~Raises(i)
    /\ status' = [status EXCEPT ![i] = "done"]
    /\ value' = [value EXCEPT ![i] = Exec(i)]
    /\ runs' = [runs EXCEPT ![i] = @ + 1]
    /\ UNCHANGED << group, faulty, graph, deps, outs, outcome, res, planVars, batchVars, foldVars >>

\* a worker runs task i and its function raises
Fail(i) ==
    /\ outcome # "built"
    /\ Ready(i)
    /\ Raises(i)
    /\ status' = [status EXCEPT ![i] = "erred"]
    /\ runs' = [runs EXCEPT ![i] = @ + 1]
    /\ UNCHANGED << group, faulty, graph, deps, outs, value, outcome, res, planVars, batchVars, foldVars >>

\* a task with an erred argument ends erred without being run
Propagate(i) ==
    /\ outcome # "built"
    /\ status[i] = "waiting"
    /\ \E k \in DOMAIN deps[i] : status[deps[i][k]] = "erred"
    /\ status' = [status EXCEPT ![i] = "erred"]
    /\ UNCHANGED << group, faulty, graph, deps, outs, value, runs, outcome, res, planVars, batchVars, foldVars >>

\* res, = dask.compute((nmuons_final, mass_final, table_skim)) returns
Return ==
    /\ outcome = "computing"
    /\ \A k \in DOMAIN outs : status[outs[k]] = "done"
    /\ outcome' = "returned"
    /\ res' = [k \in DOMAIN outs |-> value[outs[k]]]
    /\ UNCHANGED << group, faulty, graph, deps, outs, status, value, runs, planVars, batchVars, foldVars >>

\* dask.compute raises the error of an erred task it was asked for
Raise ==
    /\ outcome = "computing"
    /\ \E k \in DOMAIN outs : status[outs[k]] = "erred"
    /\ outcome' = "raised"
    /\ UNCHANGED << group, faulty, graph, deps, outs, status, value, runs, res, planVars, batchVars, foldVars >>

Next ==
    \/ Compute
    \/ \E i \in Tasks : Run(i)
    \/ \E i \in Tasks : Fail(i)
    \/ \E i \in Tasks : Propagate(i)
    \/ Return
    \/ Raise

Spec == Init /\ [][Next]_vars

(***************************************************************************)
(* Properties of the workflow.                                             *)
(***************************************************************************)
\* task i and the tasks it depends on
RECURSIVE Ancestors(_)
Ancestors(i) == { i } \cup UNION { Ancestors(deps[i][k]) : k \in DOMAIN deps[i] }

\* the k-th task handed to compute (1 nmuons_final, 2 mass_final,
\* 3 table_skim) takes in what function fn computes for a chunk
TakesIn(fn, k) ==
    \/ fn = "muon_struct"
    \/ fn = "nmuons_plot" /\ k = 1
    \/ fn = "mass_plot" /\ k = 2
    \/ fn = "cand_table" /\ k = 3
    \/ fn \in { "filter_muons", "dimuon_cand" } /\ k \in { 2, 3 }

\* C4: with the task's identity being (function, arguments), results(chunk)
\* and results_opt(chunk) build the same tasks, hence the same graph: the
\* graph holds one filter_muons and one dimuon_cand task per chunk, and
\* computing the three results together calls each of them exactly once.
C4_SharedCallsAreOneTask ==
    LET ms == muons_list(nev, chunksize)
    IN  /\ (outcome = "built") => \A c \in DOMAIN ms :
              /\ results(ms[c]) = results_opt(ms[c])
              /\ UNION { Nodes(results(ms[c])[k]) : k \in 1..3 }
                    = UNION { Nodes(results_opt(ms[c])[k]) : k \in 1..3 }
              /\ Cardinality({t \in UNION { Nodes(results(ms[c])[k]) : k \in 1..3 } :
                                 t.fn = "filter_muons"}) = 1
              /\ Cardinality({t \in UNION { Nodes(results(ms[c])[k]) : k \in 1..3 } :
                                 t.fn = "dimuon_cand"}) = 1
        /\ Cardinality({i \in Tasks : graph[i].fn = "filter_muons"})
              = Cardinality({i \in Tasks : graph[i].fn = "muon_struct"})
        /\ Cardinality({i \in Tasks : graph[i].fn = "dimuon_cand"})
              = Cardinality({i \in Tasks : graph[i].fn = "muon_struct"})
        /\ \A i \in Tasks : runs[i] <= 1
        /\ (outcome = "returned") =>
              \A i \in Tasks :
                  (graph[i].fn \in { "filter_muons", "dimuon_cand" }) => (runs[i] = 1)

\* C4 witness: compute has returned the results of two chunks, whose
\* filter_muons tasks were each called once.
C4_Witness ==
    /\ outcome = "returned"
    /\ Cardinality({i \in Tasks : graph[i].fn = "filter_muons" /\ runs[i] = 1}) = 2
    /\ Cardinality({i \in Tasks : graph[i].fn = "cand_table" /\ status[i] = "done"}) = 2

RECURSIVE Eval(_)
Eval(i) == Apply(graph[i], [k \in DOMAIN deps[i] |-> Eval(deps[i][k])], nev)

\* C9: in every order in which the executor runs the tasks, a task only
\* after all its arguments are done, every task's value is the value its
\* function has on the inputs alone, and so are the results compute returns
\* (nmuons_final, mass_final and the written table rows).
C9_ScheduleIndependentResults ==
    /\ \A i \in Tasks :
          (status[i] = "done") =>
              (value[i] = Apply(graph[i], [k \in DOMAIN deps[i] |-> Eval(deps[i][k])], nev))
    /\ (outcome = "returned") =>
          (res = [k \in DOMAIN outs |-> Eval(outs[k])])

\* C9 witness: compute has returned histograms folded over two chunks and a
\* table with a row.
C9_Witness ==
    /\ outcome = "returned"
    /\ Cardinality({i \in Tasks : graph[i].fn = "nmuons_plot"}) = 2
    /\ SumSeq(res[1]) = nev
    /\ Len(res[3]) >= 1

(***************************************************************************)
(* Properties of the planner.                                              *)
(***************************************************************************)
Max2(a, b) == IF a >= b THEN a ELSE b

\* Python's round(a / b) for a >= 0, b > 0: to the nearest integer, a tie to
\* the even one
RoundDiv(a, b) ==
    LET q == a \div b
        r == a % b
    IN  IF 2 * r < b THEN q
        ELSE IF 2 * r > b THEN q + 1
        ELSE IF q % 2 = 0 THEN q ELSE q + 1

\* rs cuts [0, n) into consecutive non-empty half-open ranges
PartitionsExactly(rs, n) ==
    /\ (n = 0) => (rs = << >>)
    /\ (n > 0) => (Len(rs) >= 1 /\ rs[1][1] = 0 /\ rs[Len(rs)][2] = n)
    /\ \A i \in DOMAIN rs : rs[i][1] < rs[i][2]
    /\ \A i \in 1..(Len(rs) - 1) : rs[i][2] = rs[i + 1][1]

\* C1 (as claimed): for every total_records >= 0 and target_size > 0 the
\* ranges of chunks() partition [0, total_records) exactly (first range at
\* 0, each range starting where the previous one stops, last range stopping
\* at total_records, none empty), so every event is loaded by exactly one
\* muon_struct task.
C1_ChunksPartitionSource ==
    /\ (ppc # "start") => PartitionsExactly(plan, nev)
    /\ (ppc = "loaded") => \A e \in 0..(nev - 1) : loads[e] = 1

\* C2 (as claimed): chunks() returns max(1, round(total_records /
\* target_size)) ranges when total_records > 0 and none when it is 0; a
\* source with 0 < total_records < target_size yields one range covering it,
\* and 1000 records with target_size 400 yield two ranges.
C2_ChunkCount ==
    (ppc # "start") =>
        /\ Len(plan) = (IF nev = 0 THEN 0 ELSE Max2(1, RoundDiv(nev, chunksize)))
        /\ (0 < nev /\ nev < chunksize) => (plan = << << 0, nev >> >>)
        /\ (nev = 1000 /\ chunksize = 400) => (Len(plan) = 2)

C6_FoldGroupsBounded ==
    (ppc # "start" /\ chunksize = 4 /\ nev >= 1) =>
        /\ \A k \in 0..(nev - 1) :
              Cardinality({i \in DOMAIN plan : plan[i][1] <= k /\ k < plan[i][2]}) = 1
        /\ \A i \in DOMAIN plan : plan[i][2] - plan[i][1] <= 4

=============================================================================
